---------------------------- MODULE Spec2Model ----------------------------
(***************************************************************************)
(* Model of the geocode cache service of dayAndNight (src/server.js): the  *)
(* locations and search_logs tables, the prepared statements, the handler  *)
(* of GET /api/geocode split at its two await points, the read-only        *)
(* endpoints behind the CORS middleware, and the search box and the list   *)
(* of compared locations of the client (src/src/DaylightViz.jsx, with the  *)
(* same code in src/src/Planner.jsx and src/src/App.jsx).                  *)
(*                                                                         *)
(* Text is modelled as a sequence of one-character strings, JSON text as a *)
(* sequence of tokens, a nullable column as a sequence of length 0 or 1.   *)
(* Requests are numbered in the order they arrive and never reuse a number.*)
(***************************************************************************)
EXTENDS Integers, Sequences, FiniteSets, TLC

(***************************************************************************)
(* Bounds of the model.                                                    *)
(***************************************************************************)
\* number of geocode requests the server receives
MaxCalls == 2

(***************************************************************************)
(* Program constants.                                                      *)
(***************************************************************************)
\* server.js:82  query.length < 3
MinQueryLength == 3
\* server.js:83/95/131  res.json(..) answers with the default status
StatusOK == 200
\* server.js:134  res.status(500)
StatusError == 500

Calls == 1..MaxCalls

\* req.query.q when the parameter is missing
Undefined == <<"undefined">>

\* the strings req.query.q is drawn from, over a letter in both cases and
\* the blank: the empty string and a two-character one (below the minimum
\* length), a three-letter word in two spellings, a two-letter word padded
\* to three and, in another spelling, to four characters, and three blanks
RawQueries ==
  { <<>>,
    <<"a", "a">>,
    <<"a", "a", "a">>,
    <<"A", "A", "a">>,
    <<" ", "a", "a">>,
    <<" ", "A", "a", " ">>,
    <<" ", " ", " ">> }

QueryParams == RawQueries \cup {Undefined}

\* a NULL column value; a non-null value v is <<v>>
NULL == <<>>

(***************************************************************************)
(* String.prototype.toLowerCase and String.prototype.trim (server.js:86)   *)
(***************************************************************************)
LowerChar(ch) == IF ch = "A" THEN "a" ELSE ch

toLowerCase(s) == [i \in 1..Len(s) |-> LowerChar(s[i])]

IsWhite(ch) == ch = " "

RECURSIVE TrimStart(_)
TrimStart(s) ==
  IF s # <<>> /\ IsWhite(Head(s)) THEN TrimStart(Tail(s)) ELSE s

RECURSIVE TrimEnd(_)
TrimEnd(s) ==
  IF s # <<>> /\ IsWhite(s[Len(s)]) THEN TrimEnd(SubSeq(s, 1, Len(s) - 1)) ELSE s

trim(s) == TrimEnd(TrimStart(s))

\* the key of server.js:86 without the trim
normalizedQueryNoTrim(query) == toLowerCase(query)

\* server.js:86  const normalizedQuery = query.toLowerCase().trim()
normalizedQuery(query) == trim(toLowerCase(query))

\* the guard of server.js:82 applied to the trimmed query
TooShortAfterTrim(query) ==
  \/ query = Undefined
  \/ query = <<>>
  \/ Len(trim(query)) < MinQueryLength

\* the guard of server.js:82 with the length off by one
TooShortLoose(query) ==
  \/ query = Undefined
  \/ query = <<>>
  \/ Len(query) < MinQueryLength - 1

\* server.js:82  if (!query || query.length < 3)
TooShort(query) ==
  \/ query = Undefined
  \/ query = <<>>
  \/ Len(query) < MinQueryLength

(***************************************************************************)
(* The provider's answers.  A candidate carries display_name, lat and lon, *)
(* the coordinates as decimal strings (Nominatim's format).                *)
(***************************************************************************)
ParisFrance == [display_name |-> "Paris, France", lat |-> "48.85", lon |-> "2.35"]

ParisTexas == [display_name |-> "Paris, Texas", lat |-> "33.66", lon |-> "-95.55"]

\* parsed JSON values: an array of candidates, or an object without length
JsArray(items) == [type |-> "array", items |-> items, error |-> ""]

JsObject(msg) == [type |-> "object", items |-> <<>>, error |-> msg]

\* the candidate lists the provider answers with: none, one candidate, and
\* two candidates with another one ranked first
CandidateLists == {<<>>, <<ParisFrance>>, <<ParisTexas, ParisFrance>>}

\* server.js:112  data.length > 0   (undefined > 0 is false)
HasResults(data) == data.type = "array" /\ Len(data.items) > 0

\* the canonical candidate taken from the end of the list
lastResult(data) == data.items[Len(data.items)]

\* server.js:113  const firstResult = data[0]
firstResult(data) == data.items[1]

\* server.js:118-119  parseFloat, in hundredths of a degree
parseFloat(s) ==
  CASE s = "48.85" -> 4885
    [] s = "2.35" -> 235
    [] s = "33.66" -> 3366
    [] s = "-95.55" -> 0 - 9555

(***************************************************************************)
(* JSON.stringify (server.js:120, res.json) and JSON.parse (server.js:95)  *)
(***************************************************************************)
StringifyCandidate(c) ==
  <<"{", "display_name", ":", c.display_name, ",", "lat", ":", c.lat, ",",
    "lon", ":", c.lon, "}">>

RECURSIVE StringifyItems(_)
StringifyItems(items) ==
  IF items = <<>> THEN <<>>
  ELSE IF Len(items) = 1 THEN StringifyCandidate(items[1])
  ELSE StringifyCandidate(items[1]) \o <<",">> \o StringifyItems(Tail(items))

JSONstringify(v) ==
  IF v.type = "array" THEN <<"[">> \o StringifyItems(v.items) \o <<"]">>
  ELSE <<"{", "error", ":", v.error, "}">>

\* the object starting at token i: 13 tokens
ParseCandidate(t, i) ==
  [display_name |-> t[i + 3], lat |-> t[i + 7], lon |-> t[i + 11]]

\* a parser that stops after the first element
ParseItemsFirst(t, i) ==
  IF t[i] = "]" THEN <<>> ELSE <<ParseCandidate(t, i)>>

RECURSIVE ParseItems(_, _)
ParseItems(t, i) ==
  IF t[i] = "]" THEN <<>>
  ELSE IF t[i] = "," THEN ParseItems(t, i + 1)
  ELSE <<ParseCandidate(t, i)>> \o ParseItems(t, i + 13)

JSONparse(t) ==
  IF t[1] = "[" THEN JsArray(ParseItems(t, 2))
  ELSE JsObject(t[4])

\* a body that is not JSON (an HTML error page)
HtmlBody == <<"<html>">>

\* whether response.json() can parse the body
IsJSON(t) == t # <<>> /\ t[1] \in {"[", "{"}

\* what the fetch of server.js:101 can resolve to: a success status with a
\* candidate array, a failure status with the provider's error object or
\* with a body that is not JSON
GatewayResponses ==
  {[ok |-> TRUE, body |-> JSONstringify(JsArray(l))] : l \in CandidateLists}
  \cup {[ok |-> FALSE, body |-> JSONstringify(JsObject("Unable to geocode"))],
        [ok |-> FALSE, body |-> HtmlBody]}

\* the await of fetch: not settled, rejected, or resolved with a response
Pending == [settled |-> "pending", ok |-> FALSE, body |-> <<>>]

Rejected == [settled |-> "rejected", ok |-> FALSE, body |-> <<>>]

Resolved(r) == [settled |-> "resolved", ok |-> r.ok, body |-> r.body]

(***************************************************************************)
(* State.                                                                  *)
(***************************************************************************)
VARIABLES
  locations,    \* table locations, rows in insertion order
  search_logs,  \* table search_logs, rows in insertion order
  pc,           \* per request: where its handler stands
  query,        \* per request: req.query.q
  upstream,     \* per request: how the await of fetch settled
  res,          \* per request: the response sent, a sequence of length <= 1
  trace,        \* per request: history of the handler's store and gateway calls
  now,          \* the server's clock, in seconds
  reply,        \* the response of the read-only request served by the last
                \* step, a sequence of length <= 1
  client        \* the state of the search box in the browser

vars == <<locations, search_logs, pc, query, upstream, res, trace, now, reply, client>>

(***************************************************************************)
(* Prepared statements (server.js:63-71, 123)                              *)
(***************************************************************************)
\* the lookup of server.js:63 with the wrong column in its WHERE clause
findLocationByResponse(locs, key) ==
  SelectSeq(locs, LAMBDA r : r.full_response = key)

\* server.js:63  SELECT full_response, id FROM locations WHERE query = ?
\* the matching rows: none, or one
findLocation(locs, key) == SelectSeq(locs, LAMBDA r : r.query = key)

\* the insert of server.js:64-67 on a table whose query column is not UNIQUE
insertLocationNoUnique(locs, key, display_name, lat, lon, full_response) ==
  Append(locs, [id |-> Len(locs) + 1, query |-> key,
                display_name |-> display_name, lat |-> lat, lon |-> lon,
                full_response |-> full_response, created_at |-> now])

\* the insert of server.js:64-67 as INSERT OR REPLACE: the row of the key is
\* deleted and a new one, with a new id, written
insertLocationReplace(locs, key, display_name, lat, lon, full_response) ==
  LET kept == SelectSeq(locs, LAMBDA r : r.query # key)
      ids == {locs[i].id : i \in 1..Len(locs)}
      next == IF ids = {} THEN 1 ELSE 1 + CHOOSE m \in ids : \A n \in ids : m >= n
  IN Append(kept, [id |-> next, query |-> key,
                   display_name |-> display_name, lat |-> lat, lon |-> lon,
                   full_response |-> full_response, created_at |-> now])

\* server.js:64-67  INSERT OR IGNORE INTO locations ...; query is UNIQUE,
\* id is AUTOINCREMENT, created_at defaults to CURRENT_TIMESTAMP
insertLocation(locs, key, display_name, lat, lon, full_response) ==
  IF findLocation(locs, key) # <<>> THEN locs
  ELSE Append(locs, [id |-> Len(locs) + 1, query |-> key,
                     display_name |-> display_name, lat |-> lat, lon |-> lon,
                     full_response |-> full_response, created_at |-> now])

\* the lookup of server.js:123 without its WHERE clause: the first row
selectFirstId(locs, key) == IF locs = <<>> THEN NULL ELSE <<locs[1].id>>

\* server.js:123  SELECT id FROM locations WHERE query = ?  then ?.id
selectId(locs, key) ==
  IF findLocation(locs, key) = <<>> THEN NULL ELSE <<findLocation(locs, key)[1].id>>

\* the log write of server.js:68-71 skipped when there is no location
logSearchSkipsNull(logs, q, location_id) ==
  IF location_id = NULL THEN logs
  ELSE Append(logs, [id |-> Len(logs) + 1, query |-> q, location_id |-> location_id,
                     timestamp |-> now])

\* server.js:68-71  INSERT INTO search_logs (query, location_id, ...);
\* timestamp defaults to CURRENT_TIMESTAMP
logSearch(logs, q, location_id) ==
  Append(logs, [id |-> Len(logs) + 1, query |-> q, location_id |-> location_id,
                timestamp |-> now])

\* res.json(body) / res.status(500).json(body): the status and the JSON text
Respond(status, body) == <<[status |-> status, body |-> JSONstringify(body)]>>

\* one entry of a request's history: the call made and the id of the row it
\* found or wrote (0: none)
Event(op, row) == [op |-> op, row |-> row]

RowId(rows) == IF rows = <<>> THEN 0 ELSE rows[1].id

\* encodeURIComponent (server.js:102): letters stay, a blank becomes %20
encodeURIComponent(s) == [i \in 1..Len(s) |-> IF s[i] = " " THEN "%20" ELSE s[i]]

\* server.js:102  the URL of the fetch, as a sequence of tokens
NominatimUrl(q) ==
  <<"https://nominatim.openstreetmap.org/search?q=">>
  \o encodeURIComponent(q) \o <<"&format=json&limit=5">>

\* the entry of a request's history for the fetch of this URL
Fetch(url) == [op |-> "fetch", row |-> 0, url |-> url]

(***************************************************************************)
(* The search box of the client (src/src/DaylightViz.jsx).  The state of   *)
(* the component is one record: searchQuery, suggestions, isSearching and  *)
(* locations are its useState cells, timer is the pending setTimeout of    *)
(* the search effect (the text it captured, or none), inflight the         *)
(* requests sent and not yet settled, sent their count.  Planner.jsx and   *)
(* the Analyze component of App.jsx hold the same code with other initial  *)
(* locations, maximum and palette: component names which of the three the  *)
(* record is the state of.  dateNow is Date.now() at the last click on a   *)
(* suggestion, counted from a moment later than the ids of the initial     *)
(* locations; two clicks of the user fall into different milliseconds.     *)
(* removed counts the locations taken off the list, warning is the last    *)
(* message of console.warn or alert.                                       *)
(***************************************************************************)
\* requests the search box sends in one run
MaxSent == 2

\* DaylightViz.jsx:93  searchQuery.length < 3
MinSearchLength == 3

\* DaylightViz.jsx:120  locations.length >= 5
MaxLocations == 5

\* App.jsx:297  locations.length >= 10
MaxLocationsAnalyze == 10

\* locations taken off the list in one run
MaxRemoved == 2

\* DaylightViz.jsx:28, Planner.jsx:87  colorPalette
colorPalette == <<"#FFD700", "#FF6B6B", "#4ECDC4", "#95E1D3", "#F38181">>

\* App.jsx:122-133  colorPalette of Analyze
colorPaletteAnalyze ==
  <<"#FFD700", "#FF6B6B", "#4ECDC4", "#95E1D3", "#F38181",
    "#AA96DA", "#FCBAD3", "#A8D8EA", "#FFE66D", "#C7CEEA">>

Components == {"DaylightViz", "Planner", "Analyze"}

\* DaylightViz.jsx:120, Planner.jsx:201, App.jsx:297  the maximum of addLocation
maxLocations(component) ==
  IF component = "Analyze" THEN MaxLocationsAnalyze ELSE MaxLocations

paletteOf(component) ==
  IF component = "Analyze" THEN colorPaletteAnalyze ELSE colorPalette

\* DaylightViz.jsx:10-18, App.jsx:102-110, Planner.jsx:58-73  the initial
\* locations, coordinates in hundredths of a degree
startLocations(component) ==
  IF component = "Planner"
  THEN <<[id |-> 1, name |-> "Edinburgh, UK", lat |-> 5595, lng |-> 0 - 319,
          color |-> "#FFD700"],
         [id |-> 2, name |-> "Dunedin, NZ", lat |-> 0 - 4588, lng |-> 17050,
          color |-> "#FF6B6B"]>>
  ELSE <<[id |-> 1, name |-> "Orange, CA", lat |-> 3379, lng |-> 0 - 11785,
          color |-> "#FFD700"]>>

\* the texts typed into the search box: empty, two characters, three, four
SearchTexts == { <<>>, <<"a", "a">>, <<"a", "a", "a">>, <<"a", "a", "a", "a">> }

\* what GET /api/geocode answers with (server.js:83, 95, 131, 134): a
\* candidate list, or an error object
GeocodeAnswers ==
  {JsArray(l) : l \in CandidateLists} \cup {JsObject("Geocoding failed")}

\* the useState initial values of a component
ComponentStart(component) ==
  [component |-> component,
   searchQuery |-> <<>>,
   suggestions |-> JsArray(<<>>),
   isSearching |-> FALSE,
   locations |-> startLocations(component),
   timer |-> <<>>,
   inflight |-> {},
   sent |-> 0,
   dateNow |-> 2,
   removed |-> 0,
   warning |-> ""]

\* DaylightViz.jsx:10-22  the useState initial values
ClientStart == ComponentStart("DaylightViz")

\* DaylightViz.jsx:136  display_name.split(',').slice(0, 2).join(',')
\* (the modelled names have two parts)
shortName(display_name) ==
  CASE display_name = "Paris, France" -> "Paris, France"
    [] display_name = "Paris, Texas" -> "Paris, Texas"

\* the color by the length of the list alone
newColorByLength(locs, palette) == palette[(Len(locs) % Len(palette)) + 1]

\* DaylightViz.jsx:126-129  the first palette color not in use, else the
\* color at locations.length % colorPalette.length
newColor(locs, palette) ==
  LET used == {locs[i].color : i \in 1..Len(locs)}
      free == {k \in 1..Len(palette) : palette[k] \notin used}
  IN IF free # {} THEN palette[CHOOSE k \in free : \A j \in free : k <= j]
     ELSE palette[(Len(locs) % Len(palette)) + 1]

\* the search effect without its cleanup: a timer that is pending stays
searchEffectNoCleanup(cl, v) ==
  IF v = <<>> \/ Len(v) < MinSearchLength
  THEN [cl EXCEPT !.searchQuery = v, !.suggestions = JsArray(<<>>)]
  ELSE [cl EXCEPT !.searchQuery = v,
                  !.timer = IF cl.timer # <<>> THEN cl.timer ELSE <<v>>]

\* DaylightViz.jsx:92-117  the search effect, run when searchQuery became v:
\* the cleanup of the previous run clears its timer (a timer that has fired
\* is not affected), then a short text clears the suggestions and any other
\* text schedules the request
searchEffect(cl, v) ==
  IF v = <<>> \/ Len(v) < MinSearchLength
  THEN [cl EXCEPT !.searchQuery = v, !.timer = <<>>, !.suggestions = JsArray(<<>>)]
  ELSE [cl EXCEPT !.searchQuery = v, !.timer = <<v>>]

\* the steps of the browser leave the server alone
ClientStep ==
  UNCHANGED <<locations, search_logs, pc, query, upstream, res, trace, now, reply>>

\* DaylightViz.jsx:428  onChange: setSearchQuery(e.target.value)
onChange(v) ==
  /\ v # client.searchQuery
  /\ client' = searchEffect(client, v)
  /\ ClientStep

\* DaylightViz.jsx:98-105  the timer fires after 300 ms: setIsSearching(true)
\* and the fetch of the captured text is sent
timeoutFires ==
  /\ client.timer # <<>>
  /\ client.sent < MaxSent
  /\ client' = [client EXCEPT
                  !.isSearching = TRUE,
                  !.timer = <<>>,
                  !.sent = @ + 1,
                  !.inflight = @ \cup {[n |-> client.sent + 1, q |-> client.timer[1]]}]
  /\ ClientStep

\* DaylightViz.jsx:106-107, 111-113  the response arrives and parses:
\* setSuggestions(data), then setIsSearching(false), whatever the box holds
\* by now
responseArrives(r, data) ==
  /\ r \in client.inflight
  /\ client' = [client EXCEPT
                  !.suggestions = data,
                  !.isSearching = FALSE,
                  !.inflight = @ \ {r}]
  /\ ClientStep

\* DaylightViz.jsx:108-113  the fetch rejects or the body does not parse:
\* setSuggestions([]), then setIsSearching(false)
requestFails(r) ==
  /\ r \in client.inflight
  /\ client' = [client EXCEPT
                  !.suggestions = JsArray(<<>>),
                  !.isSearching = FALSE,
                  !.inflight = @ \ {r}]
  /\ ClientStep

\* the handler of DaylightViz.jsx:119-142 refusing only above the maximum
addLocationLoose(k) ==
  /\ client.suggestions.type = "array"
  /\ k \in 1..Len(client.suggestions.items)
  /\ LET suggestion == client.suggestions.items[k]
         newLocation == [id |-> client.dateNow + 1,
                         name |-> shortName(suggestion.display_name),
                         lat |-> parseFloat(suggestion.lat),
                         lng |-> parseFloat(suggestion.lon),
                         color |-> newColor(client.locations,
                                            paletteOf(client.component))]
     IN IF Len(client.locations) > maxLocations(client.component)
        THEN client' = [client EXCEPT !.warning = "Maximum locations allowed"]
        ELSE client' = [searchEffect(client, <<>>) EXCEPT
                          !.locations = Append(client.locations, newLocation),
                          !.dateNow = @ + 1]
  /\ ClientStep

\* DaylightViz.jsx:119-142, 434-444  a click on the k-th suggestion shown:
\* a warning at the maximum, else the location is added, the box and the
\* suggestions are cleared and the search effect runs for the empty text
addLocation(k) ==
  /\ client.suggestions.type = "array"
  /\ k \in 1..Len(client.suggestions.items)
  /\ LET suggestion == client.suggestions.items[k]
         newLocation == [id |-> client.dateNow + 1,
                         name |-> shortName(suggestion.display_name),
                         lat |-> parseFloat(suggestion.lat),
                         lng |-> parseFloat(suggestion.lon),
                         color |-> newColor(client.locations,
                                            paletteOf(client.component))]
     IN IF Len(client.locations) >= maxLocations(client.component)
        THEN client' = [client EXCEPT !.warning = "Maximum locations allowed"]
        ELSE client' = [searchEffect(client, <<>>) EXCEPT
                          !.locations = Append(client.locations, newLocation),
                          !.dateNow = @ + 1]
  /\ ClientStep

\* DaylightViz.jsx:144-150, 460  a click on the remove button of the
\* location with this id: a warning when it is the only one, else every
\* location with the id is filtered out
removeLocation(id) ==
  /\ \E i \in 1..Len(client.locations) : client.locations[i].id = id
  /\ IF Len(client.locations) = 1
     THEN client' = [client EXCEPT !.warning = "At least one location required"]
     ELSE /\ client.removed < MaxRemoved
          /\ client' = [client EXCEPT
                          !.locations = SelectSeq(@, LAMBDA loc : loc.id # id),
                          !.removed = @ + 1]
  /\ ClientStep

ClientNext ==
  \/ \E v \in SearchTexts : onChange(v)
  \/ timeoutFires
  \/ \E r \in client.inflight : \E data \in GeocodeAnswers : responseArrives(r, data)
  \/ \E r \in client.inflight : requestFails(r)
  \/ \E k \in 1..Len(client.suggestions.items) : addLocation(k)

(***************************************************************************)
(* Initial state: both tables empty (server.js:37-60 on a fresh database), *)
(* no request received.                                                    *)
(***************************************************************************)
Init ==
  /\ locations = <<>>
  /\ search_logs = <<>>
  /\ pc = [c \in Calls |-> "idle"]
  /\ query = [c \in Calls |-> Undefined]
  /\ upstream = [c \in Calls |-> Pending]
  /\ res = [c \in Calls |-> <<>>]
  /\ trace = [c \in Calls |-> <<>>]
  /\ now = 0
  /\ reply = <<>>
  /\ client = ClientStart

\* a step of a geocode handler: no read-only request is answered, the clock
\* and the browser stand still
GeocodeStep == reply' = <<>> /\ UNCHANGED <<now, client>>

\* requests are numbered in the order they arrive
Arrives(c, q) ==
  /\ pc[c] = "idle"
  /\ \A d \in Calls : d < c => pc[d] # "idle"
  /\ query' = [query EXCEPT ![c] = q]

(***************************************************************************)
(* GET /api/geocode, from its start to the first await (server.js:79-101)  *)
(***************************************************************************)
\* server.js:82-84  short or missing query: return res.json([])
GeocodeShort(c, q) ==
  /\ GeocodeStep
  /\ Arrives(c, q)
  /\ TooShort(q)
  /\ res' = [res EXCEPT ![c] = Respond(StatusOK, JsArray(<<>>))]
  /\ pc' = [pc EXCEPT ![c] = "done"]
  /\ UNCHANGED <<locations, search_logs, upstream, trace>>

\* server.js:90-96  cache hit: log with the found id, replay full_response
GeocodeHit(c, q) ==
  /\ GeocodeStep
  /\ Arrives(c, q)
  /\ ~TooShort(q)
  /\ LET cached == findLocation(locations, normalizedQuery(q))
     IN /\ cached # <<>>
        /\ search_logs' = logSearch(search_logs, q, <<cached[1].id>>)
        /\ res' = [res EXCEPT ![c] =
                     Respond(StatusOK, JSONparse(cached[1].full_response))]
        /\ trace' = [trace EXCEPT ![c] =
                       <<Event("findLocation", cached[1].id),
                         Event("logSearch", Len(search_logs'))>>]
  /\ pc' = [pc EXCEPT ![c] = "done"]
  /\ UNCHANGED <<locations, upstream>>

\* the miss of server.js:90-101 asking the provider for the normalized key
GeocodeMissNormalized(c, q) ==
  /\ GeocodeStep
  /\ Arrives(c, q)
  /\ ~TooShort(q)
  /\ findLocation(locations, normalizedQuery(q)) = <<>>
  /\ trace' = [trace EXCEPT ![c] =
                 <<Event("findLocation", 0),
                   Fetch(NominatimUrl(normalizedQuery(q)))>>]
  /\ pc' = [pc EXCEPT ![c] = "fetch"]
  /\ UNCHANGED <<locations, search_logs, upstream, res>>

\* server.js:90-101  cache miss: the fetch is issued and awaited
GeocodeMiss(c, q) ==
  /\ GeocodeStep
  /\ Arrives(c, q)
  /\ ~TooShort(q)
  /\ findLocation(locations, normalizedQuery(q)) = <<>>
  /\ trace' = [trace EXCEPT ![c] =
                 <<Event("findLocation", 0), Fetch(NominatimUrl(q))>>]
  /\ pc' = [pc EXCEPT ![c] = "fetch"]
  /\ UNCHANGED <<locations, search_logs, upstream, res>>

\* server.js:132-135  catch: res.status(500).json({ error: 'Geocoding failed' })
Catch(c) ==
  /\ res' = [res EXCEPT ![c] = Respond(StatusError, JsObject("Geocoding failed"))]
  /\ pc' = [pc EXCEPT ![c] = "done"]
  /\ UNCHANGED <<locations, search_logs, trace>>

(***************************************************************************)
(* The await of fetch settles (server.js:101-108)                          *)
(***************************************************************************)
\* the fetch rejects (network failure): control passes to catch
FetchRejects(c) ==
  /\ GeocodeStep
  /\ pc[c] = "fetch"
  /\ upstream' = [upstream EXCEPT ![c] = Rejected]
  /\ Catch(c)
  /\ UNCHANGED query

\* the fetch resolves with a response, whatever its HTTP status; the handler
\* goes on to await response.json() (server.js:110)
FetchResolves(c, r) ==
  /\ GeocodeStep
  /\ pc[c] = "fetch"
  /\ upstream' = [upstream EXCEPT ![c] = Resolved(r)]
  /\ pc' = [pc EXCEPT ![c] = "json"]
  /\ UNCHANGED <<locations, search_logs, query, res, trace>>

(***************************************************************************)
(* The await of response.json() settles (server.js:110-135)                *)
(***************************************************************************)
\* the body is not JSON: response.json() rejects, control passes to catch
JsonRejects(c) ==
  /\ GeocodeStep
  /\ pc[c] = "json"
  /\ ~IsJSON(upstream[c].body)
  /\ Catch(c)
  /\ UNCHANGED <<query, upstream>>

\* the path of server.js:112-126 with the log written before the insert
JsonResultsLogFirst(c) ==
  /\ GeocodeStep
  /\ pc[c] = "json"
  /\ IsJSON(upstream[c].body)
  /\ HasResults(JSONparse(upstream[c].body))
  /\ LET d == JSONparse(upstream[c].body)
         key == normalizedQuery(query[c])
         first == firstResult(d)
     IN /\ search_logs' = logSearch(search_logs, query[c], selectId(locations, key))
        /\ locations' = insertLocation(locations, key, first.display_name,
                                        parseFloat(first.lat),
                                        parseFloat(first.lon),
                                        JSONstringify(d))
        /\ trace' = [trace EXCEPT ![c] = @ \o
                       <<Event("selectId", RowId(findLocation(locations, key))),
                         Event("logSearch", Len(search_logs')),
                         Event("insertLocation",
                               IF locations' # locations
                               THEN locations'[Len(locations')].id ELSE 0)>>]
        /\ res' = [res EXCEPT ![c] = Respond(StatusOK, d)]
  /\ pc' = [pc EXCEPT ![c] = "done"]
  /\ UNCHANGED <<query, upstream>>

\* server.js:112-126, 131  at least one candidate: insert the first, look the
\* id up, log with it, answer with the whole list
JsonResults(c) ==
  /\ GeocodeStep
  /\ pc[c] = "json"
  /\ IsJSON(upstream[c].body)
  /\ HasResults(JSONparse(upstream[c].body))
  /\ LET d == JSONparse(upstream[c].body)
         key == normalizedQuery(query[c])
         first == firstResult(d)
     IN /\ locations' = insertLocation(locations, key, first.display_name,
                                        parseFloat(first.lat),
                                        parseFloat(first.lon),
                                        JSONstringify(d))
        /\ search_logs' = logSearch(search_logs, query[c], selectId(locations', key))
        /\ trace' = [trace EXCEPT ![c] = @ \o
                       <<Event("insertLocation",
                               IF locations' # locations
                               THEN locations'[Len(locations')].id ELSE 0),
                         Event("selectId", RowId(findLocation(locations', key))),
                         Event("logSearch", Len(search_logs'))>>]
        /\ res' = [res EXCEPT ![c] = Respond(StatusOK, d)]
  /\ pc' = [pc EXCEPT ![c] = "done"]
  /\ UNCHANGED <<query, upstream>>

\* the path of server.js:127-131 storing the empty answer under the key
JsonNoResultsCached(c) ==
  /\ GeocodeStep
  /\ pc[c] = "json"
  /\ IsJSON(upstream[c].body)
  /\ ~HasResults(JSONparse(upstream[c].body))
  /\ locations' = insertLocation(locations, normalizedQuery(query[c]), "", 0, 0,
                                  upstream[c].body)
  /\ search_logs' = logSearch(search_logs, query[c], NULL)
  /\ trace' = [trace EXCEPT ![c] = @ \o <<Event("logSearch", Len(search_logs'))>>]
  /\ res' = [res EXCEPT ![c] = Respond(StatusOK, JSONparse(upstream[c].body))]
  /\ pc' = [pc EXCEPT ![c] = "done"]
  /\ UNCHANGED <<query, upstream>>

\* server.js:127-131  no candidate (or a body without length): log with a
\* null location, answer with the body
JsonNoResults(c) ==
  /\ GeocodeStep
  /\ pc[c] = "json"
  /\ IsJSON(upstream[c].body)
  /\ ~HasResults(JSONparse(upstream[c].body))
  /\ search_logs' = logSearch(search_logs, query[c], NULL)
  /\ trace' = [trace EXCEPT ![c] = @ \o <<Event("logSearch", Len(search_logs'))>>]
  /\ res' = [res EXCEPT ![c] = Respond(StatusOK, JSONparse(upstream[c].body))]
  /\ pc' = [pc EXCEPT ![c] = "done"]
  /\ UNCHANGED <<locations, query, upstream>>

Next ==
  \E c \in Calls :
    \/ \E q \in QueryParams : GeocodeShort(c, q)
    \/ \E q \in RawQueries : GeocodeHit(c, q)
    \/ \E q \in RawQueries : GeocodeMiss(c, q)
    \/ FetchRejects(c)
    \/ \E r \in GatewayResponses : FetchResolves(c, r)
    \/ JsonRejects(c)
    \/ JsonResults(c)
    \/ JsonNoResults(c)

Spec == Init /\ [][Next]_vars

\* the search box alone, the server being its environment
ClientSpec == Init /\ [][ClientNext]_vars

(***************************************************************************)
(* The list of compared locations of the three components: searches that   *)
(* run to their answer, clicks on suggestions and on remove buttons.       *)
(***************************************************************************)
\* the text searched for and the answer it gets
ListTexts == { <<"a", "a", "a">> }

ListAnswers == { JsArray(<<ParisFrance>>) }

\* DaylightViz.jsx:92-117  a search that runs to its answer while the user
\* waits: the text is typed, the timer fires after 300 ms and the answer
\* arrives, with no other event in between
searchCompletes(v, data) ==
  /\ client.timer = <<>> /\ client.inflight = {}
  /\ v # client.searchQuery
  /\ Len(v) >= MinSearchLength
  /\ client' = [searchEffect(client, v) EXCEPT
                  !.timer = <<>>, !.suggestions = data, !.isSearching = FALSE]
  /\ ClientStep

ListInit ==
  /\ locations = <<>>
  /\ search_logs = <<>>
  /\ pc = [c \in Calls |-> "idle"]
  /\ query = [c \in Calls |-> Undefined]
  /\ upstream = [c \in Calls |-> Pending]
  /\ res = [c \in Calls |-> <<>>]
  /\ trace = [c \in Calls |-> <<>>]
  /\ now = 0
  /\ reply = <<>>
  /\ \E component \in Components : client = ComponentStart(component)

ListNext ==
  \/ \E v \in ListTexts : \E data \in ListAnswers : searchCompletes(v, data)
  \/ \E k \in 1..Len(client.suggestions.items) : addLocation(k)
  \/ \E i \in 1..Len(client.locations) : removeLocation(client.locations[i].id)

ListSpec == ListInit /\ [][ListNext]_vars

(***************************************************************************)
(* GET /api/geocode when the statement logSearch throws (the disk is full, *)
(* the database file is locked by another process).                        *)
(***************************************************************************)
\* server.js:94  logSearch.run throws on the hit path, outside any try: the
\* promise of the async handler rejects.  What the caller then gets depends
\* on the Express release, which the sources do not pin: Express 4 drops
\* the rejection and no response is ever sent, Express 5 passes it to the
\* default error handler, which answers 500 with an HTML page
GeocodeHitLogFails(c, q, forwarded) ==
  /\ GeocodeStep
  /\ Arrives(c, q)
  /\ ~TooShort(q)
  /\ LET cached == findLocation(locations, normalizedQuery(q))
     IN /\ cached # <<>>
        /\ trace' = [trace EXCEPT ![c] =
                       <<Event("findLocation", cached[1].id),
                         Event("logSearchFailed", 0)>>]
  /\ res' = [res EXCEPT ![c] =
               IF forwarded THEN <<[status |-> StatusError, body |-> HtmlBody]>>
               ELSE <<>>]
  /\ pc' = [pc EXCEPT ![c] = IF forwarded THEN "done" ELSE "unhandled"]
  /\ UNCHANGED <<locations, search_logs, upstream>>

\* server.js:115-124, 132-135  the insert is made, logSearch.run throws
\* inside the try: the catch answers 500
JsonResultsLogFails(c) ==
  /\ GeocodeStep
  /\ pc[c] = "json"
  /\ IsJSON(upstream[c].body)
  /\ HasResults(JSONparse(upstream[c].body))
  /\ LET d == JSONparse(upstream[c].body)
         key == normalizedQuery(query[c])
         first == firstResult(d)
     IN /\ locations' = insertLocation(locations, key, first.display_name,
                                        parseFloat(first.lat),
                                        parseFloat(first.lon),
                                        JSONstringify(d))
        /\ trace' = [trace EXCEPT ![c] = @ \o
                       <<Event("insertLocation",
                               IF locations' # locations
                               THEN locations'[Len(locations')].id ELSE 0),
                         Event("selectId", RowId(findLocation(locations', key))),
                         Event("logSearchFailed", 0)>>]
  /\ res' = [res EXCEPT ![c] = Respond(StatusError, JsObject("Geocoding failed"))]
  /\ pc' = [pc EXCEPT ![c] = "done"]
  /\ UNCHANGED <<search_logs, query, upstream>>

\* server.js:128, 132-135  logSearch.run throws on the path without
\* candidates: the catch answers 500
JsonNoResultsLogFails(c) ==
  /\ GeocodeStep
  /\ pc[c] = "json"
  /\ IsJSON(upstream[c].body)
  /\ ~HasResults(JSONparse(upstream[c].body))
  /\ trace' = [trace EXCEPT ![c] = @ \o <<Event("logSearchFailed", 0)>>]
  /\ res' = [res EXCEPT ![c] = Respond(StatusError, JsObject("Geocoding failed"))]
  /\ pc' = [pc EXCEPT ![c] = "done"]
  /\ UNCHANGED <<locations, search_logs, query, upstream>>

LogFailNext ==
  \/ Next
  \/ \E c \in Calls :
       \/ \E q \in RawQueries : \E forwarded \in BOOLEAN :
            GeocodeHitLogFails(c, q, forwarded)
       \/ JsonResultsLogFails(c)
       \/ JsonNoResultsLogFails(c)

\* the geocode handler with a Search Log that can fail to write
LogFailSpec == Init /\ [][LogFailNext]_vars

(***************************************************************************)
(* The geocode handler under the scheduling the runtime guarantees: once   *)
(* the fetch has resolved, the handler runs to its response.  Nothing      *)
(* makes the fetch of server.js:101-108 settle: it is given no signal and  *)
(* no timeout.                                                             *)
(***************************************************************************)
FairSpec ==
  /\ Init
  /\ [][Next]_vars
  /\ \A c \in Calls : WF_vars(JsonRejects(c) \/ JsonResults(c) \/ JsonNoResults(c))

(***************************************************************************)
(* The CORS middleware (server.js:15-29).  The Origin header of a request  *)
(* is a sequence of length 0 (no header) or 1.                             *)
(***************************************************************************)
\* server.js:15-19
allowedOrigins ==
  <<"http://localhost:5173", "https://daylightviz.org", "https://www.daylightviz.org">>

\* the Origin headers requests come with: none, the three of the list, the
\* site over another scheme, and another site
Origins ==
  { <<>>,
    <<"http://localhost:5173">>,
    <<"https://daylightviz.org">>,
    <<"https://www.daylightviz.org">>,
    <<"http://daylightviz.org">>,
    <<"https://evil.example">> }

\* Array.prototype.indexOf, zero-based, -1 when absent
indexOf(list, x) ==
  IF \E i \in 1..Len(list) : list[i] = x
  THEN (CHOOSE i \in 1..Len(list) : list[i] = x /\ \A j \in 1..(i - 1) : list[j] # x) - 1
  ELSE 0 - 1

\* server.js:22-28  if (!origin || allowedOrigins.indexOf(origin) !== -1)
\* callback(null, true) else callback(new Error('Not allowed by CORS'))
corsAllows(origin) ==
  IF origin = <<>> THEN TRUE ELSE indexOf(allowedOrigins, origin[1]) # 0 - 1

(***************************************************************************)
(* SQL of the read-only endpoints (server.js:141-160, 168-169)             *)
(***************************************************************************)
\* server.js:148  LIMIT 10
TopLimit == 10

\* server.js:154  LIMIT 20
RecentLimit == 20

\* ORDER BY key DESC over the rows `left` of a table with these keys: the
\* row numbers in the order of the result.  SQL leaves the order of rows
\* with equal keys open: they come in table order, or (rev) in the reverse
\* of it
OrderDesc(keys, left, rev) ==
  LET Before(j, i) ==
        \/ keys[j] > keys[i]
        \/ keys[j] = keys[i] /\ (IF rev THEN j > i ELSE j < i)
      rank == [i \in left |-> Cardinality({j \in left : Before(j, i)})]
  IN [k \in 1..Cardinality(left) |-> CHOOSE i \in left : rank[i] = k - 1]

\* LIMIT n
Limit(rows, n) == SubSeq(rows, 1, IF Len(rows) < n THEN Len(rows) ELSE n)

\* server.js:144-146  SELECT query, COUNT(*) as count FROM search_logs
\* GROUP BY query: one row per distinct query
GroupCount(logs) ==
  LET firsts == {i \in 1..Len(logs) : \A j \in 1..(i - 1) : logs[j].query # logs[i].query}
      order == OrderDesc([i \in 1..Len(logs) |-> 0 - i], firsts, FALSE)
  IN [k \in 1..Len(order) |->
        [query |-> logs[order[k]].query,
         count |-> Cardinality({j \in 1..Len(logs) : logs[j].query = logs[order[k]].query})]]

\* the query of server.js:143-149 without its ORDER BY
topSearchesUnordered(logs, rev) == Limit(GroupCount(logs), TopLimit)

\* server.js:143-149  ... ORDER BY count DESC LIMIT 10
topSearches(logs, rev) ==
  LET groups == GroupCount(logs)
      order == OrderDesc([k \in 1..Len(groups) |-> groups[k].count],
                         1..Len(groups), rev)
  IN Limit([k \in 1..Len(order) |-> groups[order[k]]], TopLimit)

\* server.js:150-155  SELECT query, timestamp FROM search_logs
\* ORDER BY timestamp DESC LIMIT 20
recentSearches(logs, rev) ==
  LET order == OrderDesc([i \in 1..Len(logs) |-> logs[i].timestamp],
                         1..Len(logs), rev)
  IN Limit([k \in 1..Len(order) |->
              [query |-> logs[order[k]].query, timestamp |-> logs[order[k]].timestamp]],
           RecentLimit)

\* a JavaScript number and a JavaScript string, as they go into the JSON
JsNumber(v) == [type |-> "number", value |-> v, text |-> <<>>]

JsString(t) == [type |-> "string", value |-> 0, text |-> t]

\* the decimal digits of a natural number
Digit(d) == CASE d = 0 -> "0" [] d = 1 -> "1" [] d = 2 -> "2" [] d = 3 -> "3"
              [] d = 4 -> "4" [] d = 5 -> "5" [] d = 6 -> "6" [] d = 7 -> "7"
              [] d = 8 -> "8" [] d = 9 -> "9"

RECURSIVE Digits(_)
Digits(n) == IF n < 10 THEN <<Digit(n)>> ELSE Digits(n \div 10) \o <<Digit(n % 10)>>

\* two fraction digits cut off instead of rounded
toFixed2Truncating(num, den) ==
  LET h == (100 * num) \div den
  IN Digits(h \div 100) \o <<".", Digit((h \div 10) % 10), Digit(h % 10)>>

\* Number.prototype.toFixed(2) of the quotient num / den: the decimal with
\* two fraction digits nearest to it, as text (below 64 log entries no
\* quotient 100 * hits / total lies halfway between two such decimals)
toFixed2(num, den) ==
  LET h == (2 * 100 * num + den) \div (2 * den)
  IN Digits(h \div 100) \o <<".", Digit((h \div 10) % 10), Digit(h % 10)>>

\* the rate of server.js:156-160 over the entries without a location
cacheHitRateOfNulls(logs) ==
  LET total == Len(logs)
      hits == Cardinality({i \in 1..Len(logs) : logs[i].location_id = NULL})
  IN IF total > 0 THEN JsString(toFixed2(hits * 100, total)) ELSE JsNumber(0)

\* server.js:156-160  total > 0 ? ((hits / total) * 100).toFixed(2) : 0
cacheHitRate(logs) ==
  LET total == Len(logs)
      hits == Cardinality({i \in 1..Len(logs) : logs[i].location_id # NULL})
  IN IF total > 0 THEN JsString(toFixed2(hits * 100, total)) ELSE JsNumber(0)

(***************************************************************************)
(* The read-only endpoints behind the middleware.                          *)
(***************************************************************************)
\* the steps of the read-only endpoints write no table
ReadStep ==
  UNCHANGED <<locations, search_logs, pc, query, upstream, res, trace, now, client>>

Replied(endpoint, origin, status, body) ==
  <<[endpoint |-> endpoint, origin |-> origin, status |-> status, body |-> body]>>

\* the server runs one handler at a time: the response of a read-only
\* request has left before the next such request is handled
Sent ==
  /\ reply # <<>>
  /\ reply' = <<>>
  /\ ReadStep

\* the paths the server routes
Endpoints == {"health", "geocode", "analytics", "export"}

\* server.js:26  the middleware refuses the request: no handler runs and the
\* default error handler of Express answers 500
CorsRejects(origin, endpoint) ==
  /\ reply = <<>>
  /\ ~corsAllows(origin)
  /\ reply' = Replied(endpoint, origin, StatusError, HtmlBody)
  /\ ReadStep

\* server.js:74-76  GET /health
Health(origin) ==
  /\ reply = <<>>
  /\ corsAllows(origin)
  /\ reply' = Replied("health", origin, StatusOK, [status |-> "ok", timestamp |-> now])
  /\ ReadStep

\* the handler of server.js:139-164 counting the distinct queries of the
\* log as totalSearches
AnalyticsCountsDistinct(origin, revTop, revRecent) ==
  /\ reply = <<>>
  /\ corsAllows(origin)
  /\ reply' = Replied("analytics", origin, StatusOK,
                      [totalSearches |-> Len(GroupCount(search_logs)),
                       uniqueLocations |-> Len(locations),
                       topSearches |-> topSearches(search_logs, revTop),
                       recentSearches |-> recentSearches(search_logs, revRecent),
                       cacheHitRate |-> cacheHitRate(search_logs)])
  /\ ReadStep

\* server.js:139-164  GET /api/analytics
Analytics(origin, revTop, revRecent) ==
  /\ reply = <<>>
  /\ corsAllows(origin)
  /\ reply' = Replied("analytics", origin, StatusOK,
                      [totalSearches |-> Len(search_logs),
                       uniqueLocations |-> Len(locations),
                       topSearches |-> topSearches(search_logs, revTop),
                       recentSearches |-> recentSearches(search_logs, revRecent),
                       cacheHitRate |-> cacheHitRate(search_logs)])
  /\ ReadStep

\* the handler of server.js:167-176 deleting what it has exported
ExportAndPurge(origin, revLocations, revSearches) ==
  /\ reply = <<>>
  /\ corsAllows(origin)
  /\ reply' = Replied("export", origin, StatusOK,
                      [locations |-> locations, searches |-> search_logs,
                       exported_at |-> now])
  /\ search_logs' = <<>>
  /\ UNCHANGED <<locations, pc, query, upstream, res, trace, now, client>>

\* server.js:167-176  GET /api/export
Export(origin, revLocations, revSearches) ==
  /\ reply = <<>>
  /\ corsAllows(origin)
  /\ reply' = Replied("export", origin, StatusOK,
                      [locations |->
                         LET order == OrderDesc([i \in 1..Len(locations) |->
                                                   locations[i].created_at],
                                                1..Len(locations), revLocations)
                         IN [k \in 1..Len(order) |-> locations[order[k]]],
                       searches |->
                         LET order == OrderDesc([i \in 1..Len(search_logs) |->
                                                   search_logs[i].timestamp],
                                                1..Len(search_logs), revSearches)
                         IN [k \in 1..Len(order) |-> search_logs[order[k]]],
                       exported_at |-> now])
  /\ ReadStep

(***************************************************************************)
(* The read-only endpoints over a database filled by earlier geocode       *)
(* calls: the tables are those a run of calls leaves behind, each call     *)
(* served to its end before the next arrives.                              *)
(***************************************************************************)
\* geocode calls served before the read-only requests arrive
MaxLogs == 22

\* the three-character raw queries over a letter in both cases and the
\* blank, numbered 0..26
Letter(d) == CASE d = 0 -> "a" [] d = 1 -> "A" [] d = 2 -> " "

Word(k) == <<Letter(k \div 9), Letter((k \div 3) % 3), Letter(k % 3)>>

\* the raw query of the i-th call when m queries are in use: each once,
\* then again at uneven rates
QueryOf(i, m) ==
  Word(IF i <= m THEN i - 1 ELSE (((i - m) * (i - m + 1)) \div 2) % m)

\* server.js:79-131  one geocode call served without another in between,
\* the Gateway answering with data: hit, miss with results, miss without
ServeCall(tables, q, data) ==
  LET key == normalizedQuery(q)
      cached == findLocation(tables.locations, key)
      first == firstResult(data)
      stored == insertLocation(tables.locations, key, first.display_name,
                               parseFloat(first.lat), parseFloat(first.lon),
                               JSONstringify(data))
  IN IF cached # <<>>
     THEN [tables EXCEPT !.logs = logSearch(@, q, <<cached[1].id>>)]
     ELSE IF HasResults(data)
     THEN [locations |-> stored, logs |-> logSearch(tables.logs, q, selectId(stored, key))]
     ELSE [tables EXCEPT !.logs = logSearch(@, q, NULL)]

\* CURRENT_TIMESTAMP of the rows a call served at second t has written
AtSecond(before, after, t) ==
  [locations |-> before.locations
                 \o [i \in 1..(Len(after.locations) - Len(before.locations)) |->
                       [after.locations[Len(before.locations) + i] EXCEPT !.created_at = t]],
   logs |-> before.logs
            \o [i \in 1..(Len(after.logs) - Len(before.logs)) |->
                  [after.logs[Len(before.logs) + i] EXCEPT !.timestamp = t]]]

\* the tables after n calls over m queries, g calls a second, the Gateway
\* finding nothing for every e-th query
RECURSIVE Served(_, _, _, _)
Served(n, m, g, e) ==
  IF n = 0 THEN [locations |-> <<>>, logs |-> <<>>]
  ELSE LET before == Served(n - 1, m, g, e)
           q == QueryOf(n, m)
           data == IF \E k \in 0..26 : k % e = 0 /\ q = Word(k)
                   THEN JsArray(<<>>) ELSE JsArray(<<ParisFrance>>)
       IN AtSecond(before, ServeCall(before, q, data), (n - 1) \div g)

ApiInit ==
  \E n \in 0..MaxLogs : \E m \in {3, 12} : \E g \in {1, 3} : \E e \in {2, 27} :
    /\ now = n \div g
    /\ locations = Served(n, m, g, e).locations
    /\ search_logs = Served(n, m, g, e).logs
    /\ pc = [c \in Calls |-> "idle"]
    /\ query = [c \in Calls |-> Undefined]
    /\ upstream = [c \in Calls |-> Pending]
    /\ res = [c \in Calls |-> <<>>]
    /\ trace = [c \in Calls |-> <<>>]
    /\ reply = <<>>
    /\ client = ClientStart

ApiNext ==
  \/ \E origin \in Origins :
       \/ \E endpoint \in Endpoints : CorsRejects(origin, endpoint)
       \/ Health(origin)
       \/ \E revTop, revRecent \in BOOLEAN : Analytics(origin, revTop, revRecent)
       \/ \E revLocations, revSearches \in BOOLEAN : Export(origin, revLocations, revSearches)
  \/ Sent

ApiSpec == ApiInit /\ [][ApiNext]_vars

(***************************************************************************)
(* The whole service: geocode calls and read-only requests in any          *)
(* interleaving, all within one second of the clock.                       *)
(***************************************************************************)
\* the raw queries and the Origin headers of this specification
ServiceQueries == { <<"a", "a">>, <<"a", "a", "a">>, <<"A", "A", "a">> }

ServiceOrigins == { <<>>, <<"https://www.daylightviz.org">>, <<"https://evil.example">> }


ServiceNext ==
  \/ \E c \in Calls :
       \/ \E q \in ServiceQueries : GeocodeShort(c, q)
       \/ \E q \in ServiceQueries : GeocodeHit(c, q)
       \/ \E q \in ServiceQueries : GeocodeMiss(c, q)
       \/ FetchRejects(c)
       \/ \E r \in GatewayResponses : FetchResolves(c, r)
       \/ JsonRejects(c)
       \/ JsonResults(c)
       \/ JsonNoResults(c)
  \/ \E origin \in ServiceOrigins :
       \/ \E endpoint \in Endpoints : CorsRejects(origin, endpoint)
       \/ Health(origin)
       \/ \E revTop, revRecent \in BOOLEAN : Analytics(origin, revTop, revRecent)
       \/ \E revLocations, revSearches \in BOOLEAN : Export(origin, revLocations, revSearches)
  \/ Sent

ServiceSpec == Init /\ [][ServiceNext]_vars

(***************************************************************************)
(* Vocabulary of the properties.                                           *)
(***************************************************************************)
\* how often a request's history holds the call op
Count(t, op) == Cardinality({i \in 1..Len(t) : t[i].op = op})

\* the request's lookup found a row
IsHit(t) == t # <<>> /\ t[1].op = "findLocation" /\ t[1].row # 0

\* the request's lookup found nothing and the Gateway was called
IsMiss(t) == t # <<>> /\ t[1].op = "findLocation" /\ t[1].row = 0

\* the search_logs rows a request wrote
LogRows(logs, t) == {i \in 1..Len(logs) : \E k \in 1..Len(t) :
                       t[k].op = "logSearch" /\ t[k].row = logs[i].id}

\* a raw query of at least three characters
LongEnough(q) == q # Undefined /\ Len(q) >= 3

\* a query that is absent or has fewer than three characters
ShortQuery(q) == q = Undefined \/ Len(q) < 3

\* q without its leading and trailing blanks
Core(q) ==
  LET idx == {i \in 1..Len(q) : q[i] # " "}
  IN IF idx = {} THEN <<>>
     ELSE SubSeq(q, CHOOSE i \in idx : \A j \in idx : i <= j,
                    CHOOSE i \in idx : \A j \in idx : i >= j)

\* the same letter, in either case
SameLetter(a, b) == a = b \/ {a, b} = {"a", "A"}

\* p and q differ only in letter case or in leading/trailing whitespace
SameUpToCaseAndPadding(p, q) ==
  /\ Len(Core(p)) = Len(Core(q))
  /\ \A i \in 1..Len(Core(p)) : SameLetter(Core(p)[i], Core(q)[i])

\* the lowercased and trimmed form of q
KeyOf(q) == [i \in 1..Len(Core(q)) |-> IF Core(q)[i] = "A" THEN "a" ELSE Core(q)[i]]

\* the rows stored under the key of raw query q
RowsFor(locs, q) == {i \in 1..Len(locs) : locs[i].query = KeyOf(q)}

\* the row search_logs gains when a request logs raw query q with location l
LogRow(logs, q, l) ==
  [id |-> Len(logs) + 1, query |-> q, location_id |-> l, timestamp |-> now]

\* the response: a status and a JSON text
Response(status, body) == <<[status |-> status, body |-> body]>>

\* the Gateway call of request c failed: the fetch rejected, or the body
\* could not be parsed
GatewayFailed(c) ==
  \/ upstream[c].settled = "rejected"
  \/ upstream[c].settled = "resolved" /\ pc[c] = "done" /\ ~IsJSON(upstream[c].body)

\* the Gateway call of request c returned this many candidates (-1: no list)
GatewayCount(c) ==
  IF upstream[c].settled = "resolved" /\ IsJSON(upstream[c].body)
     /\ upstream[c].body[1] = "["
  THEN Cardinality({i \in 1..Len(upstream[c].body) :
                      upstream[c].body[i] = "display_name"})
  ELSE 0 - 1

\* request c ended with a Location stored under its key: it was a hit, or
\* its Gateway call returned at least one candidate
EndedStored(c) ==
  pc[c] = "done" /\ (IsHit(trace[c]) \/ (IsMiss(trace[c]) /\ GatewayCount(c) >= 1))

\* request c ended with its own answer in the store: it was a hit, or its
\* insert created the row
AnswerIsStored(c) ==
  \/ IsHit(trace[c])
  \/ \E k \in 1..Len(trace[c]) : trace[c][k].op = "insertLocation" /\ trace[c][k].row # 0

\* request c arrives in this step with raw query q
ArrivesWith(c, q) == pc[c] = "idle" /\ pc'[c] # "idle" /\ query'[c] = q

(***************************************************************************)
(* C1  Idempotent caching.                                                 *)
(***************************************************************************)
C1_Step_Original ==
  \A c, d \in Calls :
    (c # d /\ pc[d] = "done" /\ LongEnough(query[d]) /\ ArrivesWith(c, query[d]))
    => /\ Count(trace[d], "fetch") + Count(trace'[c], "fetch") <= 1
       /\ IsHit(trace'[c])
       /\ pc'[c] = "done"
       /\ res'[c] = res[d]

\* C1 as claimed: for every q of length >= 3 and whatever the Gateway
\* answered, when geocode(q) is issued again after the first call responded,
\* the two calls invoke the Gateway at most once, the second is served from
\* the store and returns what the first returned.
C1_Original == [][C1_Step_Original]_vars

C1_Step_Amended ==
  \A c, d \in Calls :
    (c # d /\ EndedStored(d) /\ LongEnough(query[d]) /\ ArrivesWith(c, query[d]))
    => /\ Count(trace[d], "fetch") + Count(trace'[c], "fetch") <= 1
       /\ IsHit(trace'[c])
       /\ pc'[c] = "done"
       /\ AnswerIsStored(d) => res'[c] = res[d]

\* C1 amended: for every q of length >= 3, when geocode(q) is issued again
\* after a first call that ended with a Location stored under q's key (a
\* cache hit, or a Gateway answer of at least one candidate), the two calls
\* invoke the Gateway at most once and the second is served from the store;
\* it returns what the first returned whenever the first was a hit or its
\* insert created the row.
C1_Amended == [][C1_Step_Amended]_vars

\* a second geocode(q) was served from the store with the answer of the
\* first, which had gone to the Gateway
C1_Witness ==
  \E c, d \in Calls :
    /\ c # d /\ pc[c] = "done" /\ pc[d] = "done"
    /\ LongEnough(query[d]) /\ query[c] = query[d]
    /\ IsMiss(trace[d]) /\ GatewayCount(d) = 2
    /\ IsHit(trace[c])
    /\ res[c] = res[d]

(***************************************************************************)
(* C2  Concurrent-miss safety.                                             *)
(***************************************************************************)
\* both requests looked the same key up, missed, and got a candidate list
\* from the Gateway
BothMissed(c, d) ==
  /\ c # d /\ pc[c] = "done" /\ pc[d] = "done"
  /\ LongEnough(query[c]) /\ LongEnough(query[d])
  /\ KeyOf(query[c]) = KeyOf(query[d])
  /\ IsMiss(trace[c]) /\ IsMiss(trace[d])
  /\ GatewayCount(c) >= 0 /\ GatewayCount(d) >= 0

C3_FailureLogged ==
  \A c \in Calls :
    (pc[c] = "done" /\ GatewayFailed(c))
    => /\ res[c] # <<>> /\ res[c][1].status = 500
       /\ Cardinality(LogRows(search_logs, trace[c])) = 1
       /\ \A i \in LogRows(search_logs, trace[c]) : search_logs[i].location_id = <<>>

(***************************************************************************)
(* C4  Case/whitespace equivalence.                                        *)
(***************************************************************************)
\* every answered call with results has exactly one row among those whose
\* key matches its raw query up to case and padding, keyed by the
\* lowercased and trimmed query
C4_OneRow ==
  \A c \in Calls :
    (LongEnough(query[c]) /\ EndedStored(c))
    => /\ Cardinality({i \in 1..Len(locations) :
                         SameUpToCaseAndPadding(locations[i].query, query[c])}) = 1
       /\ Cardinality(RowsFor(locations, query[c])) = 1

\* a call that arrives after a successful call for an equivalent query is a
\* cache hit on that call's row and creates nothing
C4_LaterHit ==
  \A c, d \in Calls :
    (/\ c # d /\ EndedStored(d) /\ LongEnough(query[d])
     /\ pc[c] = "idle" /\ pc'[c] # "idle" /\ LongEnough(query'[c])
     /\ SameUpToCaseAndPadding(query'[c], query[d]))
    => /\ IsHit(trace'[c])
       /\ \E i \in RowsFor(locations, query[d]) : trace'[c][1].row = locations[i].id
       /\ locations' = locations

\* C4: geocode calls whose raw queries (length >= 3, Gateway returning >= 1
\* candidate) differ only in letter case or in leading/trailing whitespace
\* create exactly one Location row, keyed by the lowercased and trimmed
\* query, and every call after the first successful one is a cache hit on
\* that row.
C4_CaseWhitespace == [](C4_OneRow) /\ [][C4_LaterHit]_vars

\* a query with a capital and one with padding met on one row
C4_Witness ==
  \E c, d \in Calls :
    /\ pc[c] = "done" /\ pc[d] = "done"
    /\ LongEnough(query[c]) /\ LongEnough(query[d])
    /\ \E i \in 1..Len(query[d]) : query[d][i] = "A"
    /\ query[c][1] = " " /\ query[c][Len(query[c])] # " "
    /\ SameUpToCaseAndPadding(query[c], query[d])
    /\ IsMiss(trace[d]) /\ IsHit(trace[c])
    /\ Len(locations) = 1

(***************************************************************************)
(* C5  One Location per key, never overwritten.                            *)
(***************************************************************************)
C5_Unique ==
  \A i, j \in 1..Len(locations) :
    (locations[i].query = locations[j].query \/ locations[i].id = locations[j].id)
    => i = j

\* every row is still there after the step, with all its columns
C5_Immutable ==
  \A i \in 1..Len(locations) : \E j \in 1..Len(locations') : locations'[j] = locations[i]

\* C5: in every reachable state there is at most one Location row per
\* normalized query, and a row, once written, keeps its id, display_name,
\* lat, lon and stored response under every interleaving of geocode calls.
C5_FirstWriterWins == [](C5_Unique) /\ [][C5_Immutable]_vars

\* a later insert for a stored key, carrying another answer, was ignored
C5_Witness ==
  \E c \in Calls :
    /\ pc[c] = "done"
    /\ \E k \in 1..Len(trace[c]) : trace[c][k].op = "insertLocation" /\ trace[c][k].row = 0
    /\ \E i \in RowsFor(locations, query[c]) :
         locations[i].full_response # upstream[c].body

(***************************************************************************)
(* C6  Short-query short-circuit.                                          *)
(***************************************************************************)
C6_Step ==
  \A c \in Calls :
    (pc[c] = "idle" /\ pc'[c] # "idle" /\ ShortQuery(query'[c]))
    => /\ pc'[c] = "done"
       /\ res'[c] = Response(200, <<"[", "]">>)
       /\ locations' = locations
       /\ search_logs' = search_logs
       /\ trace'[c] = <<>>

\* C6: a geocode call whose query is absent or shorter than 3 characters
\* returns an empty list, leaves the Location Store and the Search Log
\* unchanged and makes no Gateway call.
C6_ShortCircuit == [][C6_Step]_vars

\* a two-character query was answered with the empty list beside a
\* populated store and log
C6_Witness ==
  \E c \in Calls :
    /\ pc[c] = "done" /\ query[c] # Undefined /\ Len(query[c]) = 2
    /\ res[c] = Response(200, <<"[", "]">>)
    /\ trace[c] = <<>>
    /\ Len(locations) = 1 /\ Len(search_logs) = 1

(***************************************************************************)
(* C7  Miss with no results.                                               *)
(***************************************************************************)
C7_Step ==
  \A c \in Calls :
    (/\ pc[c] = "json" /\ pc'[c] = "done"
     /\ IsMiss(trace[c]) /\ GatewayCount(c) = 0)
    => /\ search_logs' = Append(search_logs, LogRow(search_logs, query[c], <<>>))
       /\ Count(trace'[c], "logSearch") = 1
       /\ locations' = locations
       /\ res'[c] = Response(200, <<"[", "]">>)

\* C7: a geocode call (query length >= 3, store miss) for which the Gateway
\* returns an empty candidate list appends exactly one Search Log entry with
\* a null location reference, creates no Location row, and returns an empty
\* list with a success status.
C7_EmptyResult == [][C7_Step]_vars

\* a miss was answered by the Gateway with the empty list and logged
C7_Witness ==
  \E c \in Calls :
    /\ pc[c] = "done" /\ IsMiss(trace[c]) /\ GatewayCount(c) = 0
    /\ res[c] = Response(200, <<"[", "]">>)
    /\ Cardinality(LogRows(search_logs, trace[c])) = 1
    /\ \A i \in LogRows(search_logs, trace[c]) : search_logs[i].location_id = <<>>
    /\ RowsFor(locations, query[c]) = {}

(***************************************************************************)
(* C8  Cache hit.                                                          *)
(***************************************************************************)
\* the request whose insert wrote the row with this id
Creators(id) ==
  {d \in Calls : \E k \in 1..Len(trace[d]) :
                   trace[d][k].op = "insertLocation" /\ trace[d][k].row = id}

C8_Step ==
  \A c \in Calls : \A i \in 1..Len(locations) :
    (/\ pc[c] = "idle" /\ pc'[c] # "idle" /\ LongEnough(query'[c])
     /\ locations[i].query = KeyOf(query'[c]))
    => /\ pc'[c] = "done"
       /\ Count(trace'[c], "fetch") = 0
       /\ search_logs' =
            Append(search_logs, LogRow(search_logs, query'[c], <<locations[i].id>>))
       /\ Count(trace'[c], "logSearch") = 1
       /\ res'[c] = Response(200, locations[i].full_response)
       /\ \A d \in Creators(locations[i].id) : res'[c] = Response(200, upstream[d].body)
       /\ locations' = locations

\* C8: a geocode call whose store lookup finds a Location for the normalized
\* key makes no Gateway call, appends one Search Log entry whose location
\* reference is the id of the found Location, and returns the candidate list
\* stored when that Location was created.
C8_CacheHit == [][C8_Step]_vars

\* a hit under another raw query replayed the two candidates of the row's
\* creator and was logged with the row's id
C8_Witness ==
  \E c, d \in Calls :
    /\ pc[c] = "done" /\ IsHit(trace[c])
    /\ d \in Creators(trace[c][1].row)
    /\ GatewayCount(d) = 2
    /\ query[c] # query[d]
    /\ res[c] = Response(200, upstream[d].body)
    /\ \E i \in LogRows(search_logs, trace[c]) :
         search_logs[i].location_id = <<trace[c][1].row>>

(***************************************************************************)
(* C9  Miss with results.                                                  *)
(***************************************************************************)
C9_Step ==
  \A c \in Calls :
    (/\ pc[c] = "json" /\ pc'[c] = "done"
     /\ IsMiss(trace[c]) /\ GatewayCount(c) >= 1)
    => /\ \E i \in 1..Len(locations') :
            /\ RowsFor(locations', query[c]) = {i}
            /\ search_logs' =
                 Append(search_logs, LogRow(search_logs, query[c], <<locations'[i].id>>))
            /\ IF RowsFor(locations, query[c]) = {}
               THEN /\ locations' = Append(locations, locations'[i])
                    /\ locations'[i].display_name = upstream[c].body[5]
                    /\ locations'[i].lat = parseFloat(upstream[c].body[9])
                    /\ locations'[i].lon = parseFloat(upstream[c].body[13])
                    /\ locations'[i].full_response = upstream[c].body
               ELSE locations' = locations
       /\ [k \in 1..Len(trace'[c]) |-> trace'[c][k].op] =
            <<"findLocation", "fetch", "insertLocation", "selectId", "logSearch">>
       /\ res'[c] = Response(200, upstream[c].body)

\* C9: on a store miss where the Gateway returns >= 1 candidate, the call
\* attempts an insert of the first candidate under the normalized key, then
\* appends a Search Log entry whose location reference is non-null and is
\* the id of the Location currently stored under that key (inserted by this
\* call or by a concurrent one), and returns the full candidate list.
C9_MissWithResults == [][C9_Step]_vars

\* a miss with two candidates found the key stored by a concurrent call and
\* was logged with that call's row
C9_Witness ==
  \E c, d \in Calls :
    /\ c # d /\ pc[c] = "done" /\ IsMiss(trace[c]) /\ GatewayCount(c) = 2
    /\ \E k \in 1..Len(trace[c]) : trace[c][k].op = "insertLocation" /\ trace[c][k].row = 0
    /\ \E i \in RowsFor(locations, query[c]) :
         /\ d \in Creators(locations[i].id)
         /\ \E j \in LogRows(search_logs, trace[c]) :
              search_logs[j].location_id = <<locations[i].id>>
    /\ res[c] = Response(200, upstream[c].body)

(***************************************************************************)
(* C10  One Search Log entry per call.                                     *)
(***************************************************************************)
\* C10 as claimed: every geocode call with a query of length >= 3 appends
\* exactly one Search Log entry, on a cache hit, a miss with results, a miss
\* without results and a failure alike, and the entry holds the raw query.
C10_OneLogPerCall ==
  \A c \in Calls :
    (pc[c] = "done" /\ LongEnough(query[c]))
    => /\ Count(trace[c], "logSearch") = 1
       /\ Cardinality(LogRows(search_logs, trace[c])) = 1
       /\ \A i \in LogRows(search_logs, trace[c]) : search_logs[i].query = query[c]

(***************************************************************************)
(* C11  A failed log write does not fail the request.                      *)
(***************************************************************************)
\* the Search Log write of request c failed
LogWriteFailed(c) == Count(trace[c], "logSearchFailed") > 0

\* C11 as claimed: when the Search Log write fails during a geocode call, on
\* the cache-hit path or on either miss path, the caller still receives the
\* geocoding result with a success status.
C11_LogFailureHarmless ==
  \A c \in Calls :
    LogWriteFailed(c)
    => /\ pc[c] = "done"
       /\ res[c] = Response(200, IF IsHit(trace[c])
                                 THEN locations[trace[c][1].row].full_response
                                 ELSE upstream[c].body)

(***************************************************************************)
(* C12  One failure outcome for every kind of Gateway failure.             *)
(***************************************************************************)
\* the provider answered request c with a status outside 200-299
BadStatus(c) == upstream[c].settled = "resolved" /\ ~upstream[c].ok

\* C12 as claimed: a network failure, a non-success HTTP status of the
\* provider and a body that does not parse all end the call with the same
\* failure response, and a non-success status with a parseable body is never
\* answered as a success.
C12_SameFailure ==
  \A c \in Calls :
    (pc[c] = "done" /\ (GatewayFailed(c) \/ BadStatus(c)))
    => res[c] = Response(500, <<"{", "error", ":", "Geocoding failed", "}">>)

(***************************************************************************)
(* C13  A hung provider does not hang the caller.                          *)
(***************************************************************************)
\* C13 as claimed: every geocode call that went to the Gateway eventually
\* responds to its caller, also when the provider never answers.
C13_EventuallyResponds ==
  \A c \in Calls : (pc[c] = "fetch") ~> (res[c] # <<>>)

(***************************************************************************)
(* C14  Order of the steps within one call.                                *)
(***************************************************************************)
\* the positions of the call op in a request's history
Positions(t, op) == {i \in 1..Len(t) : t[i].op = op}

\* the lookup comes first; the Gateway is called, and has settled, only
\* after a lookup that found nothing; an insert comes before the log write
C14_Order ==
  \A c \in Calls :
    /\ trace[c] # <<>> => Positions(trace[c], "findLocation") = {1}
    /\ \A j \in Positions(trace[c], "fetch") : j > 1 /\ IsMiss(trace[c])
    /\ upstream[c].settled # "pending" => Positions(trace[c], "fetch") # {}
    /\ IsHit(trace[c]) => Positions(trace[c], "fetch") = {}
    /\ \A i \in Positions(trace[c], "insertLocation") :
         \A j \in Positions(trace[c], "logSearch") : i < j

\* the log entry of a call whose insert creates the row already refers to
\* that row
C14_LogSeesInsert ==
  \A c \in Calls :
    (pc[c] = "json" /\ pc'[c] = "done" /\ Len(locations') > Len(locations))
    => /\ Len(search_logs') = Len(search_logs) + 1
       /\ search_logs'[Len(search_logs')].location_id = <<locations'[Len(locations')].id>>

\* C14: within a single geocode call the Store lookup happens before any
\* Gateway call, the Gateway is called only if the lookup missed, and the
\* Store insert happens before the Search Log write of the call.
C14_Ordering == [](C14_Order) /\ [][C14_LogSeesInsert]_vars

\* one call looked up, fetched, inserted and logged, in this order, and
\* another was answered by its lookup without a fetch
C14_Witness ==
  \E c, d \in Calls :
    /\ pc[c] = "done" /\ pc[d] = "done"
    /\ [k \in 1..Len(trace[c]) |-> trace[c][k].op] =
         <<"findLocation", "fetch", "insertLocation", "selectId", "logSearch">>
    /\ trace[c][3].row # 0
    /\ search_logs[trace[c][5].row].location_id = <<trace[c][3].row>>
    /\ [k \in 1..Len(trace[d]) |-> trace[d][k].op] = <<"findLocation", "logSearch">>
    /\ upstream[d].settled = "pending"

(***************************************************************************)
(* C15  cacheHitRate.                                                      *)
(***************************************************************************)
\* the analytics response just sent
AnalyticsReplied ==
  reply # <<>> /\ reply[1].endpoint = "analytics" /\ reply[1].status = 200

\* N: the Search Log entries; K: those with a location reference
LoggedTotal == Len(search_logs)

LoggedWithLocation ==
  Cardinality({i \in 1..Len(search_logs) : search_logs[i].location_id # <<>>})

DigitValue(ch) ==
  CASE ch = "0" -> 0 [] ch = "1" -> 1 [] ch = "2" -> 2 [] ch = "3" -> 3
    [] ch = "4" -> 4 [] ch = "5" -> 5 [] ch = "6" -> 6 [] ch = "7" -> 7
    [] ch = "8" -> 8 [] ch = "9" -> 9

RECURSIVE NatOf(_)
NatOf(t) == IF t = <<>> THEN 0
            ELSE 10 * NatOf(SubSeq(t, 1, Len(t) - 1)) + DigitValue(t[Len(t)])

\* the value of a rate in hundredths of a percent, whether it is given as a
\* number or as a decimal text
RateHundredths(rate) ==
  IF rate.type = "number" THEN 100 * rate.value
  ELSE LET dot == CHOOSE i \in 1..Len(rate.text) : rate.text[i] = "."
           frac == SubSeq(rate.text, dot + 1, Len(rate.text))
       IN 100 * NatOf(SubSeq(rate.text, 1, dot - 1))
          + (IF Len(frac) = 1 THEN 10 * NatOf(frac) ELSE NatOf(SubSeq(frac, 1, 2)))

\* C15 as claimed: cacheHitRate equals 100 * K / N, and 0 when N = 0.
C15_Original ==
  AnalyticsReplied
  => IF LoggedTotal = 0
     THEN RateHundredths(reply[1].body.cacheHitRate) = 0
     ELSE RateHundredths(reply[1].body.cacheHitRate) * LoggedTotal
            = 100 * 100 * LoggedWithLocation

\* C15 amended: for N > 0 cacheHitRate is the decimal text with exactly two
\* fraction digits that is nearest to 100 * K / N; for N = 0 it is the
\* number 0.
C15_Amended ==
  AnalyticsReplied
  => LET rate == reply[1].body.cacheHitRate
     IN IF LoggedTotal = 0
        THEN rate.type = "number" /\ rate.value = 0
        ELSE /\ rate.type = "string"
             /\ Len(rate.text) >= 4
             /\ {i \in 1..Len(rate.text) : rate.text[i] = "."} = {Len(rate.text) - 2}
             /\ LET d == RateHundredths(rate) * LoggedTotal
                          - 100 * 100 * LoggedWithLocation
                IN 2 * d <= LoggedTotal /\ 2 * (0 - d) <= LoggedTotal

\* a rate that is not a whole number of hundredths was reported, rounded up
C15_Witness ==
  /\ AnalyticsReplied
  /\ LoggedTotal >= 3
  /\ RateHundredths(reply[1].body.cacheHitRate) * LoggedTotal
       > 100 * 100 * LoggedWithLocation

(***************************************************************************)
(* C16  Append-only log, insert-only store.                                *)
(***************************************************************************)
C16_Step ==
  /\ Len(search_logs') >= Len(search_logs)
  /\ \A i \in 1..Len(search_logs) : search_logs'[i] = search_logs[i]
  /\ Len(locations') >= Len(locations)
  /\ \A i \in 1..Len(locations) :
       \E j \in 1..Len(locations') : locations'[j].id = locations[i].id

\* C16: across any sequence of geocode, analytics, export and health
\* requests no Search Log entry is modified or removed and no Location row
\* is removed, so both counts never decrease.
C16_AppendOnly == [][C16_Step]_vars

\* an export was answered over a stored Location and two log entries while
\* another geocode call was waiting for the Gateway
C16_Witness ==
  /\ reply # <<>> /\ reply[1].endpoint = "export" /\ reply[1].status = 200
  /\ Len(reply[1].body.searches) = 2 /\ Len(reply[1].body.locations) = 1
  /\ Len(search_logs) = 2 /\ Len(locations) = 1

(***************************************************************************)
(* C17  Cross-origin policy.                                               *)
(***************************************************************************)
\* C17 as claimed: a request is accepted only if its origin is one of the
\* allow-listed front-end origins; every other request, also one without an
\* Origin header, is rejected.
C17_AllowListOnly ==
  (reply # <<>> /\ reply[1].status = 200)
  => /\ reply[1].origin # <<>>
     /\ reply[1].origin \in { <<"http://localhost:5173">>,
                              <<"https://daylightviz.org">>,
                              <<"https://www.daylightviz.org">> }

(***************************************************************************)
(* C18  Late geocode responses in the search box.                          *)
(***************************************************************************)
\* a request whose text is no longer what the search box holds
Superseded(r) == r.q # client.searchQuery

\* the settling (response or failure) of every superseded request leaves
\* the suggestions as they were set for the newer input
C18_Step ==
  \A r \in client.inflight :
    (r \notin client'.inflight /\ Superseded(r))
    => client'.suggestions = client.suggestions

\* C18 as claimed: a geocode response that arrives after its query has been
\* superseded (a newer text was typed, or the box was cleared by adding a
\* location) is discarded and never overwrites the suggestions set for the
\* newer input.
C18_StaleDiscarded == [][C18_Step]_vars

(***************************************************************************)
(* C19  The read-only endpoints.                                           *)
(***************************************************************************)
\* a health, analytics or export request was answered in this step
ReadAnswered ==
  /\ reply' # <<>> /\ reply' # reply
  /\ reply'[1].endpoint \in {"health", "analytics", "export"}
  /\ reply'[1].status = 200

C19_Step ==
  ReadAnswered
  => /\ locations' = locations
     /\ search_logs' = search_logs
     /\ reply'[1].endpoint = "analytics"
        => /\ reply'[1].body.totalSearches = Len(search_logs')
           /\ reply'[1].body.uniqueLocations = Len(locations')

\* C19: the analytics, export and health endpoints leave the Location Store
\* and the Search Log unchanged, and totalSearches and uniqueLocations are
\* the current numbers of Search Log entries and of Location rows.
C19_ReadOnly == [][C19_Step]_vars

\* analytics was answered over two log entries of the same query and one
\* stored Location
C19_Witness ==
  /\ AnalyticsReplied
  /\ reply[1].body.totalSearches = 2 /\ reply[1].body.uniqueLocations = 1
  /\ Len(search_logs) = 2 /\ Len(locations) = 1
  /\ search_logs[1].query = search_logs[2].query

(***************************************************************************)
(* C20  recentSearches and topSearches.                                    *)
(***************************************************************************)
\* how often a raw query occurs in the Search Log
Frequency(q) ==
  Cardinality({i \in 1..Len(search_logs) : search_logs[i].query = q})

LoggedQueries == {search_logs[i].query : i \in 1..Len(search_logs)}

Smaller(a, b) == IF a < b THEN a ELSE b

\* R holds min(20, N) entries of the log, newest first, each entry of the
\* log at most once, and every entry newer than the oldest of R
RecentOK(R) ==
  /\ Len(R) <= 20
  /\ Len(R) = Smaller(20, Len(search_logs))
  /\ \A k \in 1..(Len(R) - 1) : R[k].timestamp >= R[k + 1].timestamp
  /\ \A k \in 1..Len(R) :
       LET same(e) == e.query = R[k].query /\ e.timestamp = R[k].timestamp
           inR == Cardinality({j \in 1..Len(R) : same(R[j])})
           inLog == Cardinality({i \in 1..Len(search_logs) : same(search_logs[i])})
       IN inR <= inLog
  /\ \A i \in 1..Len(search_logs) :
       (Len(R) > 0 /\ search_logs[i].timestamp > R[Len(R)].timestamp)
       => LET same(e) == /\ e.query = search_logs[i].query
                         /\ e.timestamp = search_logs[i].timestamp
          IN Cardinality({j \in 1..Len(R) : same(R[j])})
               = Cardinality({j \in 1..Len(search_logs) : same(search_logs[j])})

\* T holds min(10, distinct queries) rows, one per raw query with its true
\* frequency, in non-increasing frequency, and no raw query left out is
\* more frequent than one of T
TopOK(T) ==
  /\ Len(T) <= 10
  /\ Len(T) = Smaller(10, Cardinality(LoggedQueries))
  /\ \A k \in 1..Len(T) :
       T[k].query \in LoggedQueries /\ T[k].count = Frequency(T[k].query)
  /\ \A j, k \in 1..Len(T) : j # k => T[j].query # T[k].query
  /\ \A k \in 1..(Len(T) - 1) : T[k].count >= T[k + 1].count
  /\ \A q \in LoggedQueries :
       (\A k \in 1..Len(T) : T[k].query # q)
       => \A k \in 1..Len(T) : Frequency(q) <= T[k].count

\* C20: the analytics result lists at most 20 recentSearches, by timestamp
\* descending and holding the most recent entries of the log, and at most
\* 10 topSearches, in non-increasing frequency, no omitted raw query being
\* more frequent than an included one.
C20_Lists ==
  AnalyticsReplied
  => /\ RecentOK(reply[1].body.recentSearches)
     /\ TopOK(reply[1].body.topSearches)

\* analytics was answered over more than 20 log entries of more than 10
\* raw queries: both limits cut, the lists span several seconds and several
\* frequencies
C20_Witness ==
  /\ AnalyticsReplied
  /\ Len(search_logs) > 20 /\ Cardinality(LoggedQueries) > 10
  /\ Len(reply[1].body.recentSearches) = 20
  /\ Len(reply[1].body.topSearches) = 10
  /\ reply[1].body.recentSearches[1].timestamp
       > reply[1].body.recentSearches[20].timestamp
  /\ reply[1].body.topSearches[1].count > reply[1].body.topSearches[10].count
  /\ \E i \in 1..Len(search_logs) :
       search_logs[i].timestamp < reply[1].body.recentSearches[20].timestamp

(***************************************************************************)
(* C21  Size of the list of compared locations.                            *)
(***************************************************************************)
\* the maximum of each component, as the README and the guards state it
MaximumOf(component) ==
  CASE component = "DaylightViz" -> 5
    [] component = "Planner" -> 5
    [] component = "Analyze" -> 10

C21_Bounds ==
  /\ Len(client.locations) >= 1
  /\ Len(client.locations) <= MaximumOf(client.component)

\* an addLocation at the maximum and a removeLocation of the only location
\* (the steps that warn) leave the list as it is
C21_Step ==
  /\ Len(client.locations) >= MaximumOf(client.component)
     => \A j \in 1..Len(client'.locations) :
          \E i \in 1..Len(client.locations) :
            client'.locations[j] = client.locations[i]
  /\ Len(client.locations) = 1
     => \E j \in 1..Len(client'.locations) :
          client'.locations[j] = client.locations[1]
  /\ client'.warning # client.warning => client'.locations = client.locations

\* C21: after any sequence of addLocation and removeLocation the number of
\* compared locations stays between 1 and the component's maximum (5 in
\* DaylightViz and Planner, 10 in Analyze); addLocation at the maximum and
\* removeLocation of the only remaining location leave the list unchanged.
C21_ListSize == [](C21_Bounds) /\ [][C21_Step]_vars

\* Analyze holds ten locations after a location was removed, and an
\* addLocation was refused
C21_Witness ==
  /\ client.component = "Analyze"
  /\ Len(client.locations) = 10
  /\ client.removed > 0
  /\ client.warning = "Maximum locations allowed"

(***************************************************************************)
(* C22  Colors of the compared locations.                                  *)
(***************************************************************************)
\* the colors a component hands out, in the order of its palette
PaletteOf(component) ==
  IF component = "Analyze"
  THEN <<"#FFD700", "#FF6B6B", "#4ECDC4", "#95E1D3", "#F38181",
         "#AA96DA", "#FCBAD3", "#A8D8EA", "#FFE66D", "#C7CEEA">>
  ELSE <<"#FFD700", "#FF6B6B", "#4ECDC4", "#95E1D3", "#F38181">>

ColorsOf(locs) == {locs[i].color : i \in 1..Len(locs)}

C22_Distinct ==
  \A i, j \in 1..Len(client.locations) :
    i # j => client.locations[i].color # client.locations[j].color

\* a location added gets the first color of the palette that no location
\* of the list had: such a color exists
C22_Step ==
  Len(client'.locations) > Len(client.locations)
  => LET palette == PaletteOf(client.component)
         added == client'.locations[Len(client'.locations)]
     IN /\ Len(client.locations) < Len(palette)
        /\ \E k \in 1..Len(palette) :
             /\ added.color = palette[k]
             /\ palette[k] \notin ColorsOf(client.locations)
             /\ \A j \in 1..(k - 1) : palette[j] \in ColorsOf(client.locations)

\* C22: after any sequence of addLocation and removeLocation no two
\* locations of the list have the same color; addLocation assigns the first
\* palette color not used by a current location, and the modulo fallback is
\* never taken because the list never exceeds the palette size.
C22_UniqueColors == [](C22_Distinct) /\ [][C22_Step]_vars

\* the Planner list is full again after its first location was removed:
\* the last location added took the color of the removed one, not the
\* color at its position
C22_Witness ==
  /\ client.component = "Planner"
  /\ Len(client.locations) = 5
  /\ client.removed > 0
  /\ client.locations[5].color = "#FFD700"
  /\ client.locations[1].color = "#FF6B6B"

(***************************************************************************)
(* C23  The client's minimum length.                                       *)
(***************************************************************************)
\* the search text is empty or shorter than three characters
ShortText(v) == Len(v) < 3

\* while the text is short no request is scheduled and no suggestion is
\* listed
C23_Cleared ==
  ShortText(client.searchQuery)
  => /\ client.timer = <<>>
     /\ client.suggestions.items = <<>>

\* while the text is short no request is sent
C23_NoRequest ==
  ShortText(client.searchQuery) => client'.inflight \subseteq client.inflight

\* the server short-circuits the texts that are short for the client
C23_SameThreshold == \A v \in SearchTexts \cup RawQueries : ShortText(v) <=> TooShort(v)

\* C23 as claimed: while the client search text is empty or shorter than 3
\* characters, no geocode request is scheduled or sent and the suggestions
\* list is cleared; the threshold (raw length < 3) is the one the server
\* uses to short-circuit.
C23_ShortText ==
  [](C23_SameThreshold /\ C23_Cleared) /\ [][C23_NoRequest]_vars

(***************************************************************************)
(* C24  Client debounce.                                                   *)
(***************************************************************************)
\* the requests sent in this step
SentNow == client'.inflight \ client.inflight

\* a timer that is pending was scheduled for the text the box holds, which
\* has three characters or more: the timer of every earlier text is gone
C24_Pending ==
  client.timer # <<>>
  => client.timer[1] = client.searchQuery /\ Len(client.searchQuery) >= 3

C24_Step ==
  \* a request is sent when the timer of the unchanged text fires, one per
  \* timer
  /\ \A r \in SentNow :
       /\ client.timer = <<r.q>> /\ client'.timer = <<>>
       /\ r.q = client.searchQuery /\ r.q = client'.searchQuery
       /\ Len(r.q) >= 3
       /\ SentNow = {r}
  \* a timer is scheduled only by a change of the text
  /\ (client'.timer # <<>> /\ client'.timer # client.timer)
     => client'.searchQuery # client.searchQuery
  \* a change of the text sends nothing and leaves no timer of the old text
  /\ client'.searchQuery # client.searchQuery
     => /\ SentNow = {}
        /\ client'.timer \in {<<>>, <<client'.searchQuery>>}

\* C24: each change of the search text cancels the timer scheduled for the
\* previous text, so a geocode request is sent only for a text of length
\* >= 3 that stayed unchanged for the full 300 ms, at most one request per
\* such text; a text replaced before its timer fires produces no request.
C24_Debounce == [](C24_Pending) /\ [][C24_Step]_vars

\* a request was sent for a text, the text was replaced, and the timer of
\* the new text is pending while the request is in flight
C24_Witness ==
  /\ client.timer = << <<"a", "a", "a", "a">> >>
  /\ client.searchQuery = <<"a", "a", "a", "a">>
  /\ client.sent = 1
  /\ \E r \in client.inflight : r.q = <<"a", "a", "a">>

(***************************************************************************)
(* C30  The isSearching flag.                                              *)
(***************************************************************************)
\* C30 as claimed: isSearching is true whenever at least one geocode
\* request sent by the search box is still in flight and false once none
\* is; the completion of the earlier of two overlapping requests does not
\* clear the flag while the later one is pending.
C30_FlagTracksRequests == client.isSearching <=> client.inflight # {}

(***************************************************************************)
(* C25  No negative caching.                                               *)
(***************************************************************************)
\* request c ends in this step
EndsNow(c) == pc[c] # "done" /\ pc'[c] = "done"

\* the Gateway call of request c has returned at least one candidate
GotCandidates(c) == upstream[c].settled = "resolved" /\ GatewayCount(c) >= 1

C25_Step ==
  \A c \in Calls :
    \* a miss that ends without candidates leaves the store as it is
    /\ (EndsNow(c) /\ IsMiss(trace'[c])
        /\ (upstream'[c].settled = "rejected" \/ ~IsJSON(upstream'[c].body)
            \/ Cardinality({i \in 1..Len(upstream'[c].body) :
                              upstream'[c].body[i] = "display_name"}) = 0))
       => locations' = locations
    \* a call for a key without a row calls the Gateway
    /\ \A q \in RawQueries :
         (ArrivesWith(c, q) /\ LongEnough(q) /\ RowsFor(locations, q) = {})
         => pc'[c] = "fetch" /\ Count(trace'[c], "fetch") = 1

\* a row exists for a key only if a Gateway call for the key returned a
\* candidate
C25_RowsFromCandidates ==
  \A i \in 1..Len(locations) :
    \E c \in Calls :
      /\ LongEnough(query[c]) /\ KeyOf(query[c]) = locations[i].query
      /\ IsMiss(trace[c]) /\ GotCandidates(c)

\* C25: a geocode call that misses and gets zero candidates, or whose
\* Gateway call fails, leaves the Location Store unchanged, so every later
\* call for the same normalized key calls the Gateway again until one call
\* obtains >= 1 candidate; a Location row exists for a key only if some
\* Gateway call for that key returned >= 1 candidate.
C25_NoNegativeCaching == [](C25_RowsFromCandidates) /\ [][C25_Step]_vars

\* a call got no candidate, a later call for the same key in another
\* spelling went to the Gateway again, got one, and the row was stored
C25_Witness ==
  \E c, d \in Calls :
    /\ c < d /\ pc[c] = "done" /\ pc[d] = "done"
    /\ query[c] # query[d] /\ KeyOf(query[c]) = KeyOf(query[d])
    /\ IsMiss(trace[c]) /\ GatewayCount(c) = 0
    /\ search_logs[1].location_id = <<>>
    /\ IsMiss(trace[d]) /\ GatewayCount(d) = 1
    /\ Cardinality(RowsFor(locations, query[d])) = 1

(***************************************************************************)
(* C26  Referential integrity of the log.                                  *)
(***************************************************************************)
\* the Location rows with this id
RowsWithId(id) == {i \in 1..Len(locations) : locations[i].id = id}

\* C26: in every reachable state each Search Log entry with a non-null
\* location reference points to an existing Location row, and the key of
\* that row is the lowercased, trimmed form of the entry's raw query.
C26_ReferentialIntegrity ==
  \A e \in 1..Len(search_logs) :
    search_logs[e].location_id # <<>>
    => /\ Cardinality(RowsWithId(search_logs[e].location_id[1])) = 1
       /\ \A i \in RowsWithId(search_logs[e].location_id[1]) :
            locations[i].query = KeyOf(search_logs[e].query)

\* the log references two rows: the second by the miss that created it,
\* with a padded raw query that differs from the key
C26_Witness ==
  /\ Len(search_logs) = 2 /\ Len(locations) = 2
  /\ search_logs[1].location_id = <<locations[1].id>>
  /\ search_logs[2].location_id = <<locations[2].id>>
  /\ search_logs[2].query # locations[2].query
  /\ Len(search_logs[2].query) > Len(locations[2].query)

(***************************************************************************)
(* C27  Raw query to the Gateway, normalized key to the store.             *)
(***************************************************************************)
\* the text the q parameter of a URL stands for
QueryOfUrl(url) ==
  [i \in 1..(Len(url) - 2) |-> IF url[i + 1] = "%20" THEN " " ELSE url[i + 1]]

\* the URLs request c has fetched
FetchedUrls(t) == {t[k].url : k \in Positions(t, "fetch")}

\* request d created the Location row with this id
Created(d, id) ==
  \E k \in 1..Len(trace[d]) :
    trace[d][k].op = "insertLocation" /\ trace[d][k].row = id

C27_Step ==
  \A c \in Calls : \A q \in RawQueries :
    (ArrivesWith(c, q) /\ LongEnough(q))
    => \* a miss asks the Gateway for the raw query
       /\ IsMiss(trace'[c])
          => \A url \in FetchedUrls(trace'[c]) : QueryOfUrl(url) = q
       \* a hit returns the list the Gateway gave the call that created
       \* the row of the key
       /\ IsHit(trace'[c])
          => \E d \in Calls \ {c} :
               /\ KeyOf(query[d]) = KeyOf(q)
               /\ Created(d, trace'[c][1].row)
               /\ FetchedUrls(trace[d]) # {}
               /\ \A url \in FetchedUrls(trace[d]) : QueryOfUrl(url) = query[d]
               /\ res'[c] = Response(200, upstream[d].body)

\* C27: the Gateway is called with the raw query, not the normalized key,
\* while the store is keyed by the normalized key: a cache hit for raw
\* query q2 returns the candidate list the Gateway returned for the raw
\* query q1 of the call whose insert created the Location, for any q1, q2
\* of the same normalized form, also when q1 differs from q2.
C27_RawToGateway == [][C27_Step]_vars

\* the Gateway was asked for a padded spelling, which is not the key; a
\* call with another spelling of the key was served that answer
C27_Witness ==
  \E c, d \in Calls :
    /\ c # d /\ pc[c] = "done" /\ pc[d] = "done"
    /\ query[d] = <<" ", "A", "a", " ">> /\ query[c] = <<" ", "a", "a">>
    /\ IsMiss(trace[d]) /\ Created(d, 1) /\ GatewayCount(d) = 2
    /\ \A url \in FetchedUrls(trace[d]) :
         QueryOfUrl(url) = query[d] /\ QueryOfUrl(url) # locations[1].query
    /\ IsHit(trace[c])
    /\ res[c] = Response(200, upstream[d].body)

(***************************************************************************)
(* C28  The minimum length is checked before the trim.                     *)
(***************************************************************************)
\* a raw query of three characters or more whose trimmed form has fewer
PaddedShort(q) == LongEnough(q) /\ Len(KeyOf(q)) < 3

C28_Step ==
  \A c \in Calls :
    \* on arrival the store is looked up and, on a miss, the Gateway called
    /\ \A q \in RawQueries :
         (ArrivesWith(c, q) /\ PaddedShort(q))
         => /\ trace'[c] # <<>> /\ trace'[c][1].op = "findLocation"
            /\ IsMiss(trace'[c]) => pc'[c] = "fetch" /\ FetchedUrls(trace'[c]) # {}
            /\ IsHit(trace'[c]) => Cardinality(LogRows(search_logs', trace'[c])) = 1
    \* when the Gateway has answered, the call is logged with its raw query
    \* and, with a candidate, a Location is stored under the short key
    /\ (EndsNow(c) /\ PaddedShort(query[c]) /\ IsMiss(trace[c])
        /\ GatewayCount(c) >= 0)
       => /\ \E e \in LogRows(search_logs', trace'[c]) :
               search_logs'[e].query = query[c]
          /\ GatewayCount(c) >= 1
             => \E i \in 1..Len(locations') :
                  /\ locations'[i].query = KeyOf(query[c])
                  /\ Len(locations'[i].query) < 3

\* C28: the minimum-length check is applied to the raw query before the
\* trim: a raw query of length >= 3 whose trimmed form is shorter than 3
\* characters is not short-circuited; it reaches the store lookup, on a
\* miss the Gateway, and (the Gateway having answered) the log, and with a
\* candidate it creates a Location whose key is shorter than 3 characters
\* or empty.
C28_CheckBeforeTrim == [][C28_Step]_vars

\* three blanks went to the Gateway, were logged, and created a Location
\* with the empty key
C28_Witness ==
  \E c \in Calls :
    /\ pc[c] = "done" /\ query[c] = <<" ", " ", " ">>
    /\ IsMiss(trace[c]) /\ GatewayCount(c) = 1
    /\ \E i \in 1..Len(locations) :
         /\ locations[i].query = <<>>
         /\ Created(c, locations[i].id)
         /\ \E e \in LogRows(search_logs, trace[c]) :
              /\ search_logs[e].query = <<" ", " ", " ">>
              /\ search_logs[e].location_id = <<locations[i].id>>

(***************************************************************************)
(* C29  What cacheHitRate counts.                                          *)
(***************************************************************************)
\* the log entries written by calls served from the store, and those
\* written by calls that went to the Gateway and got a candidate
HitEntries ==
  UNION {LogRows(search_logs, trace[c]) : c \in {d \in Calls : IsHit(trace[d])}}

MissResultEntries ==
  UNION {LogRows(search_logs, trace[c]) :
           c \in {d \in Calls : IsMiss(trace[d]) /\ GatewayCount(d) >= 1}}

\* C29: the numerator of cacheHitRate counts every log entry with a
\* non-null location reference, the entries of misses that resolved with
\* >= 1 candidate included; the rate is therefore an upper bound on the
\* percentage of logged calls served from the store without a Gateway
\* call, and exceeds it as soon as one such miss is logged (it is 100 when
\* every logged call went upstream).
C29_CountsMisses ==
  AnalyticsReplied
  => LET N == LoggedTotal
         K == LoggedWithLocation
         H == Cardinality(HitEntries)
         M == Cardinality(MissResultEntries)
         rate == RateHundredths(reply[1].body.cacheHitRate)
     IN /\ K = H + M
        /\ \A e \in MissResultEntries : search_logs[e].location_id # <<>>
        /\ 2 * (rate * N - 100 * 100 * K) <= N
        /\ 2 * (100 * 100 * K - rate * N) <= N
        /\ rate * N >= 100 * 100 * H
        /\ M >= 1 => rate * N > 100 * 100 * H

\* every logged call went to the Gateway, none was served from the store,
\* and the rate reported is 100
C29_Witness ==
  /\ AnalyticsReplied
  /\ LoggedTotal = 2
  /\ HitEntries = {}
  /\ Cardinality(MissResultEntries) = 2
  /\ reply[1].body.cacheHitRate.text = <<"1", "0", "0", ".", "0", "0">>

====
